---- MODULE Spec2Model ----
(***************************************************************************)
(* The smtp-server repository: an HTTP front end that validates the        *)
(* recipients of an email request, optionally records them in a MongoDB    *)
(* collection, and sends the message through an SMTP relay with a bounded  *)
(* retry loop.  The repository holds three builds of the same program:     *)
(*   "store" : src/main.go          (synchronous reply, MongoDB store)     *)
(*   "async" : src/unnamed/part_000 (202 reply, background goroutine)      *)
(*   "basic" : src/unnamed/part_001 (single send, no recipient check)      *)
(* A behaviour of the model is one run of one build, with NumRequests      *)
(* clients calling POST/GET /send-email concurrently.                      *)
(***************************************************************************)
EXTENDS Integers, Sequences, FiniteSets, TLC

VARIABLES
    variant,      \* which build runs
    env,          \* the process environment: SENDER_EMAIL, EMAIL_PASSWORD, SMTP_SERVER, SMTP_PORT
    mongoUp,      \* whether mongodb://localhost:27017 answers the startup ping
    relayFailures,\* the relay fails the first relayFailures SendMail calls of a dispatch
    server,       \* "starting" | "connected" | "listening" | "exited"
    store,        \* the "emails" collection: a sequence of recorded addresses
    req,          \* req[r]: the HTTP request r carries (NoRequest before it arrives)
    pc,           \* pc[r]: where handler r stands
    idx,          \* idx[r]: position of the recipient loop
    found,        \* found[r]: what FindOne returned for the current recipient
    resp,         \* resp[r]: the responses written to r's ResponseWriter, in order
    retryCount,   \* retryCount[r]
    backoff,      \* backoff[r], in seconds
    attempts,     \* attempts[r]: smtp.SendMail calls made for r
    slept,        \* slept[r]: the time.Sleep durations of r's dispatch, in order
    logs,         \* logs[r]: what r's dispatch wrote to the log, in order
    bg,           \* bg[r]: the background goroutine of r ("async" build)
    doneBefore    \* doneBefore[r]: the requests whose handler had returned when r arrived

vars == << variant, env, mongoUp, relayFailures, server, store, req, pc, idx, found,
           resp, retryCount, backoff, attempts, slept, logs, bg, doneBefore >>

-----------------------------------------------------------------------------
(* Bounds of the model *)

NumRequests == 2

Reqs == 1..NumRequests

-----------------------------------------------------------------------------
(* Strings are sequences of one-character strings, so that the validator   *)
(* and the formatter can be computed on them.                              *)

UpperAlpha ==
    << "A","B","C","D","E","F","G","H","I","J","K","L","M",
       "N","O","P","Q","R","S","T","U","V","W","X","Y","Z" >>

LowerAlpha ==
    << "a","b","c","d","e","f","g","h","i","j","k","l","m",
       "n","o","p","q","r","s","t","u","v","w","x","y","z" >>

Digits == { "0","1","2","3","4","5","6","7","8","9" }

Range(s) == { s[i] : i \in 1..Len(s) }

\* [A-Z]
IsUpper(c) == c \in Range(UpperAlpha)

\* [A-Z0-9]
IsUpperAlnum(c) == IsUpper(c) \/ c \in Digits

\* [A-Z0-9_+-]
IsLocalChar(c) == IsUpperAlnum(c) \/ c \in { "_", "+", "-" }

\* [A-Z0-9-]
IsLabelChar(c) == IsUpperAlnum(c) \/ c = "-"

\* ([A-Z0-9_+-]+\.?)*[A-Z0-9_+-] : runs of local characters, each optionally
\* followed by one dot, closed by a local character.
MatchLocalPart(s) ==
    /\ Len(s) >= 1
    /\ IsLocalChar(s[1])
    /\ IsLocalChar(s[Len(s)])
    /\ \A i \in 1..Len(s) : IsLocalChar(s[i]) \/ s[i] = "."
    /\ \A i \in 1..(Len(s) - 1) : ~(s[i] = "." /\ s[i + 1] = ".")

\* [A-Z0-9][A-Z0-9-]*\. : s[from..to] is one label and to is its dot.
MatchLabel(s, from, to) ==
    /\ from < to
    /\ s[to] = "."
    /\ IsUpperAlnum(s[from])
    /\ \A i \in (from + 1)..(to - 1) : IsLabelChar(s[i])

\* ([A-Z0-9][A-Z0-9-]*\.)+ : s[1..to] is a sequence of one or more labels.
RECURSIVE MatchLabels(_, _)
MatchLabels(s, to) ==
    /\ to >= 2
    /\ \E from \in 1..(to - 1) :
          /\ MatchLabel(s, from, to)
          /\ (from = 1 \/ MatchLabels(s, from - 1))

\* ([A-Z0-9][A-Z0-9-]*\.)+[A-Z]{2,}
MatchDomainPart(s) ==
    \E d \in 1..Len(s) :
        /\ MatchLabels(s, d)
        /\ Len(s) - d >= 2
        /\ \A i \in (d + 1)..Len(s) : IsUpper(s[i])

\* ([A-Z0-9_+-]+\.?)*[A-Z0-9_+-]@([A-Z0-9][A-Z0-9-]*\.)+[A-Z]{2,}
MatchAddress(s) ==
    \E at \in 1..Len(s) :
        /\ s[at] = "@"
        /\ MatchLocalPart(SubSeq(s, 1, at - 1))
        /\ MatchDomainPart(SubSeq(s, at + 1, Len(s)))

\* The validator had the pattern ended at its $ (no trailing "/i"): the whole
\* text is an address, in upper case since no case flag is set.
IsValidEmailAnchored(email) == MatchAddress(email)

\* regexp.MatchString(emailRegexPattern, email), where the pattern is
\*   ^ <address> $ / i
\* Go's regexp has no /i delimiter syntax: after the end-of-text assertion $
\* the pattern goes on with the two literal characters "/" and "i".  A match
\* is a prefix email[1..k] that is an address, with k the end of the text
\* ($), followed by "/" and "i" at k+1 and k+2.
IsValidEmail(email) ==
    \E k \in 0..Len(email) :
        /\ MatchAddress(SubSeq(email, 1, k))
        /\ k = Len(email)
        /\ k + 2 <= Len(email)
        /\ email[k + 1] = "/"
        /\ email[k + 2] = "i"

-----------------------------------------------------------------------------
(* The inputs of the model *)

AddrLower == << "a", "@", "b", ".", "c", "o" >>

AddrUpper == << "A", "@", "B", ".", "C", "O" >>

AddrSlashI == << "A", "@", "B", ".", "C", "O", "/", "i" >>

AddrNoAt == << "a", "b", ".", "c", "o" >>

AddrNoDot == << "a", "@", "b", "c", "o" >>

AddrEmpty == << >>

SampleAddresses == { AddrLower, AddrUpper, AddrSlashI, AddrNoAt, AddrNoDot, AddrEmpty }

\* The recipient lists a request may carry: none, one or two addresses, a
\* well-formed address and an ill-formed one in every order.
RecipientLists ==
    { << >>, << AddrLower >>, << AddrNoAt >>, << AddrLower, AddrLower >>,
      << AddrLower, AddrNoAt >>, << AddrNoAt, AddrLower >> }

NoRequest == [ method |-> "none", jsonOk |-> FALSE, recipients |-> << >> ]

\* A request to /send-email: a non-POST one, a POST whose body is not JSON,
\* or a POST with a decoded EmailRequest.
Requests ==
    { [ method |-> "GET", jsonOk |-> FALSE, recipients |-> << >> ],
      [ method |-> "POST", jsonOk |-> FALSE, recipients |-> << >> ] }
    \cup { [ method |-> "POST", jsonOk |-> TRUE, recipients |-> l ] : l \in RecipientLists }

Set == << "s", "e", "t" >>

Unset == << >>

MkEnv(sender, password, smtpServer, smtpPort) ==
    [ SENDER_EMAIL |-> sender, EMAIL_PASSWORD |-> password,
      SMTP_SERVER |-> smtpServer, SMTP_PORT |-> smtpPort ]

\* All four values set (the sender in lower or in upper case), or one of
\* the four unset.
Envs ==
    { MkEnv(AddrLower, Set, Set, Set), MkEnv(AddrUpper, Set, Set, Set),
      MkEnv(Unset, Set, Set, Set), MkEnv(AddrLower, Unset, Set, Set),
      MkEnv(AddrLower, Set, Unset, Set), MkEnv(AddrLower, Set, Set, Unset) }

Variants == { "store", "async", "basic" }

RECURSIVE ToUpper(_)
\* s in upper case
ToUpper(s) ==
    IF Len(s) = 0 THEN << >>
    ELSE LET c == Head(s)
             u == IF \E i \in 1..26 : LowerAlpha[i] = c
                  THEN UpperAlpha[CHOOSE i \in 1..26 : LowerAlpha[i] = c]
                  ELSE c
         IN  << u >> \o ToUpper(Tail(s))

\* The address syntax of the Recipient Validator: local-part@domain with a
\* dot in the domain and a final label of two or more letters, whatever the
\* case of the letters.
WellFormed(email) == MatchAddress(ToUpper(email))

AllWellFormed(l) == \A i \in 1..Len(l) : WellFormed(l[i])

-----------------------------------------------------------------------------
(* getEmailConfig and formatEmailMessage *)

\* getEmailConfig: the error it returns ("nil" for none).
GetEmailConfig(e) ==
    IF \/ e.SENDER_EMAIL = << >>
       \/ e.EMAIL_PASSWORD = << >>
       \/ e.SMTP_SERVER = << >>
       \/ e.SMTP_PORT = << >>
    THEN "one or more environment variables are not set"
    ELSE IF ~IsValidEmail(e.SENDER_EMAIL)
         THEN "sender email address is not valid"
         ELSE "nil"

RECURSIVE Join(_, _)
\* strings.Join(elems, sep)
Join(elems, sep) ==
    IF Len(elems) = 0 THEN << >>
    ELSE IF Len(elems) = 1 THEN elems[1]
         ELSE elems[1] \o sep \o Join(Tail(elems), sep)

CRLF == << "\r", "\n" >>

\* formatEmailMessage: "To: %s\r\nSubject: %s\r\n\r\n%s\r\n"
FormatEmailMessage(recipients, subject, message) ==
    << "T", "o", ":", " " >> \o Join(recipients, << "," >>) \o CRLF
    \o << "S", "u", "b", "j", "e", "c", "t", ":", " " >> \o subject \o CRLF
    \o CRLF \o message \o CRLF

-----------------------------------------------------------------------------
(* Program constants *)

MaxRetries == 3

InitialBackoff == 1

StatusOK == 200

StatusAccepted == 202

StatusBadRequest == 400

StatusMethodNotAllowed == 405

StatusInternalServerError == 500

Response(status, body) == [ status |-> status, body |-> body ]

-----------------------------------------------------------------------------
(* Initial state: the process has been started, no request has arrived *)

Init ==
    /\ variant \in Variants
    /\ env \in Envs
    /\ mongoUp \in (IF variant = "store" THEN BOOLEAN ELSE { TRUE })
    /\ relayFailures \in { 0, MaxRetries - 1, MaxRetries }
    /\ server = "starting"
    /\ store = << >>
    /\ req = [ r \in Reqs |-> NoRequest ]
    /\ pc = [ r \in Reqs |-> "new" ]
    /\ idx = [ r \in Reqs |-> 0 ]
    /\ found = [ r \in Reqs |-> "none" ]
    /\ resp = [ r \in Reqs |-> << >> ]
    /\ retryCount = [ r \in Reqs |-> 0 ]
    /\ backoff = [ r \in Reqs |-> 0 ]
    /\ attempts = [ r \in Reqs |-> 0 ]
    /\ slept = [ r \in Reqs |-> << >> ]
    /\ logs = [ r \in Reqs |-> << >> ]
    /\ bg = [ r \in Reqs |-> "none" ]
    /\ doneBefore = [ r \in Reqs |-> { } ]

runFrame == << variant, env, mongoUp, relayFailures, doneBefore >>

dispatchVars == << retryCount, backoff, attempts, slept, logs, bg >>

-----------------------------------------------------------------------------
(* main *)

\* connectToMongoDB: mongo.Connect and Ping; log.Fatal when either fails.
ConnectToMongoDB ==
    /\ variant = "store"
    /\ server = "starting"
    /\ server' = IF mongoUp THEN "connected" ELSE "exited"
    /\ UNCHANGED << runFrame, store, req, pc, idx, found, resp, dispatchVars >>

\* http.HandleFunc and http.ListenAndServe(":8080"); log.Fatalf when the
\* listener cannot bind.  main reads no configuration.
ListenAndServe ==
    /\ server = (IF variant = "store" THEN "connected" ELSE "starting")
    /\ \E bound \in BOOLEAN : server' = IF bound THEN "listening" ELSE "exited"
    /\ UNCHANGED << runFrame, store, req, pc, idx, found, resp, dispatchVars >>

-----------------------------------------------------------------------------
(* sendEmailHandler, one action per step.  A handler runs only while the   *)
(* process is alive.                                                       *)

Running(r, at) == server = "listening" /\ pc[r] = at

\* net/http hands request r to sendEmailHandler on a goroutine of its own.
Accept(r) ==
    /\ Running(r, "new")
    /\ \A q \in Reqs : q < r => pc[q] # "new"
    /\ \E q \in Requests : req' = [ req EXCEPT ![r] = q ]
    /\ pc' = [ pc EXCEPT ![r] = "method" ]
    /\ doneBefore' = [ doneBefore EXCEPT ![r] = { q \in Reqs : pc[q] = "done" } ]
    /\ UNCHANGED << variant, env, mongoUp, relayFailures, server, store, idx, found,
                    resp, dispatchVars >>

\* CheckMethod without its return: the 405 is written and the handler goes
\* on to decode the body.
CheckMethodNoReturn(r) ==
    /\ Running(r, "method")
    /\ IF req[r].method # "POST"
       THEN resp' = [ resp EXCEPT ![r] =
                        Append(@, Response(StatusMethodNotAllowed, "Only POST method is allowed")) ]
       ELSE UNCHANGED resp
    /\ pc' = [ pc EXCEPT ![r] = "decode" ]
    /\ UNCHANGED << runFrame, server, store, req, idx, found, dispatchVars >>

\* if r.Method != http.MethodPost { http.Error(w, ..., 405); return }
CheckMethod(r) ==
    /\ Running(r, "method")
    /\ IF req[r].method # "POST"
       THEN /\ resp' = [ resp EXCEPT ![r] =
                           Append(@, Response(StatusMethodNotAllowed, "Only POST method is allowed")) ]
            /\ pc' = [ pc EXCEPT ![r] = "done" ]
       ELSE /\ pc' = [ pc EXCEPT ![r] = "decode" ]
            /\ UNCHANGED resp
    /\ UNCHANGED << runFrame, server, store, req, idx, found, dispatchVars >>

\* Where the recipient loop goes after recipient i: to the next recipient, or
\* past the loop to getEmailConfig.
AfterRecipient(r, i) ==
    IF i >= Len(req[r].recipients)
    THEN pc' = [ pc EXCEPT ![r] = "config" ] /\ idx' = [ idx EXCEPT ![r] = i ]
    ELSE pc' = [ pc EXCEPT ![r] = "validate" ] /\ idx' = [ idx EXCEPT ![r] = i + 1 ]

\* json.NewDecoder(r.Body).Decode(&request); 400 on a decoding error.  The
\* "basic" build goes straight to getEmailConfig, the others enter the loop
\* over request.Recipients.
DecodeBody(r) ==
    /\ Running(r, "decode")
    /\ IF ~req[r].jsonOk
       THEN /\ resp' = [ resp EXCEPT ![r] = Append(@, Response(StatusBadRequest, "json")) ]
            /\ pc' = [ pc EXCEPT ![r] = "done" ]
            /\ UNCHANGED idx
       ELSE /\ UNCHANGED resp
            /\ IF variant = "basic"
               THEN pc' = [ pc EXCEPT ![r] = "config" ] /\ UNCHANGED idx
               ELSE AfterRecipient(r, 0)
    /\ UNCHANGED << runFrame, server, store, req, found, dispatchVars >>

\* http.Error(w, "Recipient email address '%s' is not valid", 400); return
RejectRecipient(r) ==
    /\ resp' = [ resp EXCEPT ![r] = Append(@, Response(StatusBadRequest, "recipient")) ]
    /\ pc' = [ pc EXCEPT ![r] = "done" ]
    /\ UNCHANGED idx

\* The head of the recipient loop: if !isValidEmail(recipient) { 400; return }.
\* A valid recipient is looked up in the store ("store" build) or the loop
\* moves on ("async" build).
ValidateRecipient(r) ==
    /\ Running(r, "validate")
    /\ IF ~IsValidEmail(req[r].recipients[idx[r]])
       THEN RejectRecipient(r)
       ELSE /\ UNCHANGED resp
            /\ IF variant = "store"
               THEN pc' = [ pc EXCEPT ![r] = "find" ] /\ UNCHANGED idx
               ELSE AfterRecipient(r, idx[r])
    /\ UNCHANGED << runFrame, server, store, req, found, dispatchVars >>

\* emailConfig, err := getEmailConfig(); if err != nil { log.Fatal(err) }.
\* log.Fatal ends the process: every handler in flight dies with it and
\* nothing more is written to any connection.  Without an error the dispatch
\* starts: in the handler ("store", "basic") or in a goroutine ("async").
LoadConfig(r) ==
    /\ Running(r, "config")
    /\ IF GetEmailConfig(env) # "nil"
       THEN /\ server' = "exited"
            /\ pc' = [ pc EXCEPT ![r] = "fatal" ]
            /\ UNCHANGED << retryCount, backoff, bg >>
       ELSE /\ UNCHANGED server
            /\ retryCount' = [ retryCount EXCEPT ![r] = 0 ]
            /\ backoff' = [ backoff EXCEPT ![r] = InitialBackoff ]
            /\ IF variant = "async"
               THEN pc' = [ pc EXCEPT ![r] = "respond" ] /\ bg' = [ bg EXCEPT ![r] = "send" ]
               ELSE pc' = [ pc EXCEPT ![r] = "send" ] /\ UNCHANGED bg
    /\ UNCHANGED << runFrame, store, req, idx, found, resp, attempts, slept, logs >>

-----------------------------------------------------------------------------
(* The steps of sendEmailHandler behind a successful isValidEmail or        *)
(* getEmailConfig.                                                         *)

\* FindOne with a store error treated as fatal to the request: 500 and return.
FindOneAbortOnError(r) ==
    /\ Running(r, "find")
    /\ \E healthy \in BOOLEAN :
          LET result == IF ~healthy THEN "error"
                        ELSE IF req[r].recipients[idx[r]] \in Range(store) THEN "nil"
                        ELSE "ErrNoDocuments"
          IN  /\ found' = [ found EXCEPT ![r] = result ]
              /\ IF result = "error"
                 THEN /\ resp' = [ resp EXCEPT ![r] =
                                     Append(@, Response(StatusInternalServerError, "store")) ]
                      /\ pc' = [ pc EXCEPT ![r] = "done" ]
                      /\ UNCHANGED idx
                 ELSE /\ UNCHANGED resp
                      /\ IF result = "ErrNoDocuments"
                         THEN pc' = [ pc EXCEPT ![r] = "insert" ] /\ UNCHANGED idx
                         ELSE AfterRecipient(r, idx[r])
    /\ UNCHANGED << runFrame, server, store, req, dispatchVars >>

\* collection.FindOne(ctx, {"email": recipient}).Decode(&result): the
\* document if there is one, mongo.ErrNoDocuments if there is none, or
\* another error from the driver.  Only ErrNoDocuments leads to the insert.
FindOne(r) ==
    /\ Running(r, "find")
    /\ \E healthy \in BOOLEAN :
          LET result == IF ~healthy THEN "error"
                        ELSE IF req[r].recipients[idx[r]] \in Range(store) THEN "nil"
                        ELSE "ErrNoDocuments"
          IN  /\ found' = [ found EXCEPT ![r] = result ]
              /\ IF result = "ErrNoDocuments"
                 THEN pc' = [ pc EXCEPT ![r] = "insert" ] /\ UNCHANGED idx
                 ELSE AfterRecipient(r, idx[r])
    /\ UNCHANGED << runFrame, server, store, req, resp, dispatchVars >>

\* collection.InsertOne(ctx, {"email": recipient}); a failure is logged and
\* the loop goes on.
InsertOne(r) ==
    /\ Running(r, "insert")
    /\ \E healthy \in BOOLEAN :
          IF healthy
          THEN store' = Append(store, req[r].recipients[idx[r]]) /\ UNCHANGED logs
          ELSE /\ logs' = [ logs EXCEPT ![r] = Append(@, << "Could not insert email" >>) ]
               /\ UNCHANGED store
    /\ AfterRecipient(r, idx[r])
    /\ UNCHANGED << runFrame, server, req, found, resp, retryCount, backoff,
                    attempts, slept, bg >>

\* smtp.SendMail for the a-th call of a dispatch: nil or an error.
SendMailFails(a) == a <= relayFailures

\* SendMail without the return behind the 500: the reply is written and the
\* loop goes on to its sleep.
SendMailNoReturn(r) ==
    /\ variant = "store"
    /\ Running(r, "send")
    /\ attempts' = [ attempts EXCEPT ![r] = @ + 1 ]
    /\ IF SendMailFails(attempts[r] + 1)
       THEN /\ retryCount' = [ retryCount EXCEPT ![r] = @ + 1 ]
            /\ pc' = [ pc EXCEPT ![r] = "sleep" ]
            /\ IF retryCount[r] + 1 >= MaxRetries
               THEN /\ resp' = [ resp EXCEPT ![r] = Append(@,
                                   Response(StatusInternalServerError,
                                            "Failed to send email after multiple attempts")) ]
                    /\ UNCHANGED logs
               ELSE /\ logs' = [ logs EXCEPT ![r] =
                                   Append(@, << "retry", retryCount[r] + 1, backoff[r] >>) ]
                    /\ UNCHANGED resp
       ELSE /\ resp' = [ resp EXCEPT ![r] =
                           Append(@, Response(StatusOK, "Email sent successfully")) ]
            /\ pc' = [ pc EXCEPT ![r] = "done" ]
            /\ UNCHANGED << retryCount, logs >>
    /\ UNCHANGED << runFrame, server, store, req, idx, found, backoff, slept, bg >>

\* SendMail without the test retryCount >= maxRetries: every failure is
\* retried.
SendMailNoBudget(r) ==
    /\ variant = "store"
    /\ Running(r, "send")
    /\ attempts' = [ attempts EXCEPT ![r] = @ + 1 ]
    /\ IF SendMailFails(attempts[r] + 1)
       THEN /\ retryCount' = [ retryCount EXCEPT ![r] = @ + 1 ]
            /\ logs' = [ logs EXCEPT ![r] =
                           Append(@, << "retry", retryCount[r] + 1, backoff[r] >>) ]
            /\ pc' = [ pc EXCEPT ![r] = "sleep" ]
            /\ UNCHANGED resp
       ELSE /\ resp' = [ resp EXCEPT ![r] =
                           Append(@, Response(StatusOK, "Email sent successfully")) ]
            /\ pc' = [ pc EXCEPT ![r] = "done" ]
            /\ UNCHANGED << retryCount, logs >>
    /\ UNCHANGED << runFrame, server, store, req, idx, found, backoff, slept, bg >>

\* One pass of the retry loop of the "store" build: smtp.SendMail, then on
\* an error retryCount++ and either the 500 reply (retryCount >= maxRetries)
\* or the log line that precedes time.Sleep; without an error the break and
\* the 200 reply.
SendMail(r) ==
    /\ variant = "store"
    /\ Running(r, "send")
    /\ attempts' = [ attempts EXCEPT ![r] = @ + 1 ]
    /\ IF SendMailFails(attempts[r] + 1)
       THEN /\ retryCount' = [ retryCount EXCEPT ![r] = @ + 1 ]
            /\ IF retryCount[r] + 1 >= MaxRetries
               THEN /\ resp' = [ resp EXCEPT ![r] = Append(@,
                                   Response(StatusInternalServerError,
                                            "Failed to send email after multiple attempts")) ]
                    /\ pc' = [ pc EXCEPT ![r] = "done" ]
                    /\ UNCHANGED logs
               ELSE /\ logs' = [ logs EXCEPT ![r] =
                                   Append(@, << "retry", retryCount[r] + 1, backoff[r] >>) ]
                    /\ pc' = [ pc EXCEPT ![r] = "sleep" ]
                    /\ UNCHANGED resp
       ELSE /\ resp' = [ resp EXCEPT ![r] =
                           Append(@, Response(StatusOK, "Email sent successfully")) ]
            /\ pc' = [ pc EXCEPT ![r] = "done" ]
            /\ UNCHANGED << retryCount, logs >>
    /\ UNCHANGED << runFrame, server, store, req, idx, found, backoff, slept, bg >>

\* Sleep without backoff *= 2.
SleepNoDoubling(r) ==
    /\ variant = "store"
    /\ Running(r, "sleep")
    /\ slept' = [ slept EXCEPT ![r] = Append(@, backoff[r]) ]
    /\ pc' = [ pc EXCEPT ![r] = "send" ]
    /\ UNCHANGED << runFrame, server, store, req, idx, found, resp, retryCount,
                    backoff, attempts, logs, bg >>

\* Sleep with backoff a package-level variable: the doubling reaches every
\* dispatch.
SleepSharedBackoff(r) ==
    /\ variant = "store"
    /\ Running(r, "sleep")
    /\ slept' = [ slept EXCEPT ![r] = Append(@, backoff[r]) ]
    /\ backoff' = [ q \in Reqs |-> backoff[q] * 2 ]
    /\ pc' = [ pc EXCEPT ![r] = "send" ]
    /\ UNCHANGED << runFrame, server, store, req, idx, found, resp, retryCount,
                    attempts, logs, bg >>

\* time.Sleep(backoff); backoff *= 2
Sleep(r) ==
    /\ variant = "store"
    /\ Running(r, "sleep")
    /\ slept' = [ slept EXCEPT ![r] = Append(@, backoff[r]) ]
    /\ backoff' = [ backoff EXCEPT ![r] = @ * 2 ]
    /\ pc' = [ pc EXCEPT ![r] = "send" ]
    /\ UNCHANGED << runFrame, server, store, req, idx, found, resp, retryCount,
                    attempts, logs, bg >>

\* The single smtp.SendMail of the "basic" build: 500 on an error, else 200.
SendMailOnce(r) ==
    /\ variant = "basic"
    /\ Running(r, "send")
    /\ attempts' = [ attempts EXCEPT ![r] = @ + 1 ]
    /\ resp' = [ resp EXCEPT ![r] = Append(@,
                   IF SendMailFails(attempts[r] + 1)
                   THEN Response(StatusInternalServerError, "Failed to send email")
                   ELSE Response(StatusOK, "Email sent successfully")) ]
    /\ pc' = [ pc EXCEPT ![r] = "done" ]
    /\ UNCHANGED << runFrame, server, store, req, idx, found, retryCount, backoff,
                    slept, logs, bg >>

\* The "async" build, after go func(){...}(): 202 "Email is being processed".
RespondAccepted(r) ==
    /\ variant = "async"
    /\ Running(r, "respond")
    /\ resp' = [ resp EXCEPT ![r] =
                   Append(@, Response(StatusAccepted, "Email is being processed")) ]
    /\ pc' = [ pc EXCEPT ![r] = "done" ]
    /\ UNCHANGED << runFrame, server, store, req, idx, found, dispatchVars >>

\* One pass of the retry loop in the goroutine of the "async" build: the
\* outcome goes to the log only.
BackgroundSendMail(r) ==
    /\ variant = "async"
    /\ server = "listening"
    /\ bg[r] = "send"
    /\ attempts' = [ attempts EXCEPT ![r] = @ + 1 ]
    /\ IF SendMailFails(attempts[r] + 1)
       THEN /\ retryCount' = [ retryCount EXCEPT ![r] = @ + 1 ]
            /\ IF retryCount[r] + 1 >= MaxRetries
               THEN /\ logs' = [ logs EXCEPT ![r] =
                                   Append(@, << "Failed to send email after multiple attempts" >>) ]
                    /\ bg' = [ bg EXCEPT ![r] = "done" ]
               ELSE /\ logs' = [ logs EXCEPT ![r] =
                                   Append(@, << "retry", retryCount[r] + 1, backoff[r] >>) ]
                    /\ bg' = [ bg EXCEPT ![r] = "sleep" ]
       ELSE /\ logs' = [ logs EXCEPT ![r] = Append(@, << "Email sent successfully" >>) ]
            /\ bg' = [ bg EXCEPT ![r] = "done" ]
            /\ UNCHANGED retryCount
    /\ UNCHANGED << runFrame, server, store, req, pc, idx, found, resp, backoff, slept >>

\* BackgroundSleep without backoff *= 2.
BackgroundSleepNoDoubling(r) ==
    /\ variant = "async"
    /\ server = "listening"
    /\ bg[r] = "sleep"
    /\ slept' = [ slept EXCEPT ![r] = Append(@, backoff[r]) ]
    /\ bg' = [ bg EXCEPT ![r] = "send" ]
    /\ UNCHANGED << runFrame, server, store, req, pc, idx, found, resp, retryCount,
                    backoff, attempts, logs >>

\* time.Sleep(backoff); backoff *= 2 in the goroutine.
BackgroundSleep(r) ==
    /\ variant = "async"
    /\ server = "listening"
    /\ bg[r] = "sleep"
    /\ slept' = [ slept EXCEPT ![r] = Append(@, backoff[r]) ]
    /\ backoff' = [ backoff EXCEPT ![r] = @ * 2 ]
    /\ bg' = [ bg EXCEPT ![r] = "send" ]
    /\ UNCHANGED << runFrame, server, store, req, pc, idx, found, resp, retryCount,
                    attempts, logs >>

-----------------------------------------------------------------------------
(* Specifications *)

\* The store access of the recipient loop ("store" build).
StoreAccess == \E r \in Reqs : FindOne(r) \/ InsertOne(r)

\* A step of the dispatch of request r: one pass of the retry loop or its sleep.
LoopStep(r) ==
    \/ SendMail(r)
    \/ Sleep(r)
    \/ SendMailOnce(r)
    \/ BackgroundSendMail(r)
    \/ BackgroundSleep(r)

\* The dispatch, and in the "async" build the 202 of the handler beside it.
RetryLoop == \E r \in Reqs : LoopStep(r) \/ RespondAccepted(r)

\* The steps that lie behind an accepted address: store access and dispatch.
Dispatch == StoreAccess \/ RetryLoop

Next ==
    \/ ConnectToMongoDB
    \/ ListenAndServe
    \/ \E r \in Reqs : Accept(r)
    \/ \E r \in Reqs : CheckMethod(r)
    \/ \E r \in Reqs : DecodeBody(r)
    \/ \E r \in Reqs : ValidateRecipient(r)
    \/ \E r \in Reqs : LoadConfig(r)

\* Every step of the program.
NextAll == Next \/ Dispatch

SpecAll == Init /\ [][NextAll]_vars

\* No step of Dispatch is ever enabled in a state SpecAll reaches (the
\* invariant DispatchUnreachable below), so SpecAll and Spec have the same
\* behaviours; Spec leaves the disabled steps out of its next-state relation.
Spec == Init /\ [][Next]_vars

\* isValidEmail accepts no address, so no handler gets past a recipient or
\* past getEmailConfig.
DispatchUnreachable ==
    \A r \in Reqs : pc[r] \notin { "find", "insert", "send", "sleep", "respond" }
                    /\ bg[r] = "none"

\* The dispatch on its own, as the unit of code it is: every handler stands
\* where a successful getEmailConfig would leave it (retryCount = 0, backoff =
\* 1 second, the goroutine of the "async" build started), for a decoded POST
\* with one or two well-formed recipients, and the relay fails the first 0 to
\* MaxRetries + 1 calls.  No behaviour of Spec reaches such a state; SpecLoop
\* shows what the retry loop does when it is entered.
InitLoop ==
    /\ variant \in Variants
    /\ env = MkEnv(AddrLower, Set, Set, Set)
    /\ mongoUp = TRUE
    /\ relayFailures \in 0..(MaxRetries + 1)
    /\ server = "listening"
    /\ store = << >>
    /\ req \in [ Reqs -> { q \in Requests : /\ q.jsonOk
                                           /\ Len(q.recipients) > 0
                                           /\ AllWellFormed(q.recipients) } ]
    /\ pc = [ r \in Reqs |-> IF variant = "async" THEN "respond" ELSE "send" ]
    /\ idx = [ r \in Reqs |-> Len(req[r].recipients) ]
    /\ found = [ r \in Reqs |-> "none" ]
    /\ resp = [ r \in Reqs |-> << >> ]
    /\ retryCount = [ r \in Reqs |-> 0 ]
    /\ backoff = [ r \in Reqs |-> InitialBackoff ]
    /\ attempts = [ r \in Reqs |-> 0 ]
    /\ slept = [ r \in Reqs |-> << >> ]
    /\ logs = [ r \in Reqs |-> << >> ]
    /\ bg = [ r \in Reqs |-> IF variant = "async" THEN "send" ELSE "none" ]
    /\ doneBefore = [ r \in Reqs |-> { } ]

SpecLoop == InitLoop /\ [][RetryLoop]_vars

\* SpecLoop with the scheduling of the Go runtime and a relay that answers:
\* a goroutine that can take its next step (a SendMail call that returns, a
\* sleep that ends, the 202) does take it.
FairSpecLoop ==
    /\ SpecLoop
    /\ \A r \in Reqs : WF_vars(LoopStep(r)) /\ WF_vars(RespondAccepted(r))

\* The store access on its own, as the unit of code it is: every handler of
\* the "store" build stands at FindOne (main.go:70) for a recipient of its
\* request taken as accepted by the validator, with the collection empty or
\* holding one record.  No behaviour of Spec reaches such a state.
InitStore ==
    /\ variant = "store"
    /\ env = MkEnv(AddrLower, Set, Set, Set)
    /\ mongoUp = TRUE
    /\ relayFailures = 0
    /\ server = "listening"
    /\ store \in { << >>, << AddrLower >> }
    /\ req \in [ Reqs -> { q \in Requests : q.jsonOk /\ Len(q.recipients) > 0 } ]
    /\ pc = [ r \in Reqs |-> "find" ]
    /\ idx \in [ Reqs -> 1..2 ]
    /\ \A r \in Reqs : /\ idx[r] <= Len(req[r].recipients)
                       /\ AllWellFormed(SubSeq(req[r].recipients, 1, idx[r]))
    /\ found = [ r \in Reqs |-> "none" ]
    /\ resp = [ r \in Reqs |-> << >> ]
    /\ retryCount = [ r \in Reqs |-> 0 ]
    /\ backoff = [ r \in Reqs |-> 0 ]
    /\ attempts = [ r \in Reqs |-> 0 ]
    /\ slept = [ r \in Reqs |-> << >> ]
    /\ logs = [ r \in Reqs |-> << >> ]
    /\ bg = [ r \in Reqs |-> "none" ]
    /\ doneBefore = [ r \in Reqs |-> { } ]

SpecStore == InitStore /\ [][StoreAccess]_vars

-----------------------------------------------------------------------------
(* What the specification of the program asks for, for the claims below    *)

\* The four configuration values are present and the sender is an address.
ConfigValid(e) ==
    /\ e.SENDER_EMAIL # Unset /\ e.EMAIL_PASSWORD # Unset
    /\ e.SMTP_SERVER # Unset /\ e.SMTP_PORT # Unset
    /\ WellFormed(e.SENDER_EMAIL)

ConfigComplete(e) ==
    /\ e.SENDER_EMAIL # Unset /\ e.EMAIL_PASSWORD # Unset
    /\ e.SMTP_SERVER # Unset /\ e.SMTP_PORT # Unset

\* A decoded POST.
Decoded(r) == req[r].method = "POST" /\ req[r].jsonOk

\* A request that the specification sends to the relay: a decoded POST whose
\* recipients are all well-formed, in a process with a valid configuration.
Sendable(r) == Decoded(r) /\ AllWellFormed(req[r].recipients) /\ ConfigValid(env)

\* Nothing more happens for r: its handler has returned or died with the
\* process, and no goroutine of it is at work.
Quiescent(r) == pc[r] \in { "done", "fatal" } /\ bg[r] \notin { "send", "sleep" }

Statuses(r) == [ i \in 1..Len(resp[r]) |-> resp[r][i].status ]

RetryReports(r) == { i \in 1..Len(logs[r]) : logs[r][i][1] = "retry" }

\* The terminal outcome of r's dispatch, from what it reported.
Delivered(r) ==
    IF variant = "async"
    THEN \E i \in 1..Len(logs[r]) : logs[r][i] = << "Email sent successfully" >>
    ELSE Statuses(r) = << StatusOK >>

ExhaustedReports(r) ==
    IF variant = "async"
    THEN Cardinality({ i \in 1..Len(logs[r]) :
                         logs[r][i] = << "Failed to send email after multiple attempts" >> })
    ELSE Cardinality({ i \in 1..Len(resp[r]) : resp[r][i].status = StatusInternalServerError })

Count(seq, x) == Cardinality({ i \in 1..Len(seq) : seq[i] = x })

-----------------------------------------------------------------------------
(* Claims *)

\* C1: with a relay that fails exactly twice and then succeeds, the dispatch
\* of a request reaches Delivered after exactly 3 SendMail calls, having
\* slept 1 and then 2 seconds, with one "retry" report per failed call.
C1_DeliveredAfterTwoFailures ==
    \A r \in Reqs :
        ( /\ variant \in { "store", "async" }
          /\ relayFailures = 2
          /\ Sendable(r)
          /\ Quiescent(r) )
        => /\ Delivered(r)
           /\ attempts[r] = 3
           /\ slept[r] = << 1, 2 >>
           /\ Cardinality(RetryReports(r)) = 2

\* C2: with a relay that always fails, the dispatch reaches Exhausted after
\* exactly 3 SendMail calls (never a 4th), having slept 1+2 = 3 seconds, with
\* exactly one "exhausted" report besides the two "retry" reports.
C2_ExhaustedAfterThreeFailures ==
    \A r \in Reqs :
        /\ attempts[r] <= MaxRetries
        /\ ( /\ variant \in { "store", "async" }
             /\ relayFailures >= MaxRetries
             /\ Sendable(r)
             /\ Quiescent(r) )
           => /\ ~Delivered(r)
              /\ attempts[r] = 3
              /\ slept[r] = << 1, 2 >>
              /\ ExhaustedReports(r) = 1
              /\ Cardinality(RetryReports(r)) = 2

\* A request with a recipient that is no well-formed address.
HasInvalidRecipient(r) ==
    Decoded(r) /\ \E i \in 1..Len(req[r].recipients) : ~WellFormed(req[r].recipients[i])

\* The handler of r has got no further than the recipient loop, has made no
\* SendMail call, and if it has returned it has answered 400 once.
RejectedBeforeRelay(r) ==
    /\ attempts[r] = 0
    /\ bg[r] = "none"
    /\ pc[r] \notin { "config", "fatal", "send", "sleep", "respond" }
    /\ Statuses(r) \in { << >>, << StatusBadRequest >> }
    /\ pc[r] = "done" => Statuses(r) = << StatusBadRequest >>

\* C3: in every build, a request with an invalid recipient among valid ones
\* is rejected with 400 before any relay contact.
C3_RejectedInEveryBuild ==
    \A r \in Reqs : HasInvalidRecipient(r) => RejectedBeforeRelay(r)

\* C4: in the synchronous build the handler answers only once the dispatch
\* is over: 200 "Email sent successfully" when it ended Delivered, 500 when
\* it ended Exhausted.
C4_SynchronousResponse ==
    \A r \in Reqs :
        variant = "store" =>
            /\ (Len(resp[r]) > 0 /\ resp[r][1].status \in { StatusOK, StatusInternalServerError })
                  => (pc[r] = "done" /\ attempts[r] >= 1)
            /\ (Sendable(r) /\ Quiescent(r))
                  => resp[r] = IF relayFailures < MaxRetries
                               THEN << Response(StatusOK, "Email sent successfully") >>
                               ELSE << Response(StatusInternalServerError,
                                                "Failed to send email after multiple attempts") >>

\* C5: in the asynchronous build every request that passes the method, JSON
\* and recipient checks is answered 202 "Email is being processed", whatever
\* the relay does, and the outcome of the dispatch goes to the log only.
C5_AsynchronousAccepted ==
    \A r \in Reqs :
        ( /\ variant = "async"
          /\ ConfigValid(env)
          /\ Decoded(r)
          /\ \A i \in 1..Len(req[r].recipients) : IsValidEmail(req[r].recipients[i])
          /\ pc[r] \in { "done", "fatal" } )
        => resp[r] = << Response(StatusAccepted, "Email is being processed") >>

\* C6: every path through sendEmailHandler writes exactly one response:
\* never two, and one once the handler has come to its end.
C6_ExactlyOneResponse ==
    \A r \in Reqs :
        /\ Len(resp[r]) <= 1
        /\ pc[r] \in { "done", "fatal" } => Len(resp[r]) = 1

\* C7: a process that lacks one of the four configuration values aborts
\* before the listener binds, so it never listens and accepts no request.
C7_StartupAbortsOnMissingConfig ==
    ~ConfigComplete(env) =>
        /\ server # "listening"
        /\ \A r \in Reqs : pc[r] = "new"

\* C8: isValidEmail is false on an address that is not well-formed and true
\* on one that is, whatever its case: the recipient the handler rejects is
\* ill-formed, the recipients it has let pass are well-formed, and
\* getEmailConfig fails on a valid configuration never.
C8_ValidatorDecidesWellFormed ==
    \A r \in Reqs :
        /\ (pc[r] = "done" /\ Len(resp[r]) > 0 /\ resp[r][1].body = "recipient")
              => ~WellFormed(req[r].recipients[idx[r]])
        /\ (variant # "basic" /\ pc[r] \in { "validate", "config", "fatal" })
              => \A i \in 1..Len(req[r].recipients) :
                    (i < idx[r] \/ pc[r] # "validate") => WellFormed(req[r].recipients[i])
        /\ pc[r] = "fatal" => ~ConfigValid(env)

\* No access of r to the store has failed.
StoreHealthy == \A r \in Reqs : found[r] # "error" /\ Count(logs[r], << "Could not insert email" >>) = 0

\* r is a decoded POST to the "store" build for the single address a, and
\* its handler has returned.
Processed(r, a) ==
    /\ variant = "store"
    /\ Decoded(r)
    /\ req[r].recipients = << a >>
    /\ pc[r] = "done"

\* C9: once the same address has been processed twice in sequence (the
\* second request arrives after the handler of the first has returned), the
\* store holds exactly one record of it.
C9_SequentialInsertOnce ==
    \A r1, r2 \in Reqs : \A a \in SampleAddresses :
        ( /\ r1 \in doneBefore[r2]
          /\ WellFormed(a)
          /\ Processed(r1, a)
          /\ Processed(r2, a)
          /\ StoreHealthy )
        => Count(store, a) = 1

\* C10: two concurrent requests with the same address, not yet in the store,
\* both look it up (in one interleaving both find it absent and both insert,
\* leaving two records): once both handlers have returned each has made its
\* existence check and the store holds one or two records of the address.
C10_ConcurrentCheckThenInsert ==
    \A r1, r2 \in Reqs : \A a \in SampleAddresses :
        ( /\ r1 # r2
          /\ r1 \notin doneBefore[r2] /\ r2 \notin doneBefore[r1]
          /\ WellFormed(a)
          /\ Processed(r1, a)
          /\ Processed(r2, a)
          /\ StoreHealthy )
        => /\ found[r1] # "none" /\ found[r2] # "none"
           /\ Count(store, a) \in { 1, 2 }

\* The SendMail calls the dispatch of the specification makes against a
\* relay that fails its first relayFailures calls: one more than the failures,
\* and no more than MaxRetries.
ExpectedAttempts ==
    IF relayFailures + 1 <= MaxRetries THEN relayFailures + 1 ELSE MaxRetries

\* A step in which a store call of r fails: FindOne returns an error other
\* than ErrNoDocuments, or InsertOne returns an error.
FindOneFails(r) == pc[r] = "find" /\ pc'[r] # "find" /\ found'[r] = "error"

InsertOneFails(r) == pc[r] = "insert" /\ pc'[r] # "insert" /\ logs'[r] # logs[r]

\* C11: store errors never block delivery: a failed existence check or
\* insert does not abort the request.  The step writes no response, leaves
\* the request (its full recipient list), the process and the collection as
\* they are, and leaves the handler where a healthy store that holds the
\* address leaves it: at the next recipient, or behind the loop at
\* getEmailConfig, from where nothing reads the outcome of the store calls.
C11_StoreErrorsDoNotBlockDelivery ==
    [][ \A r \in Reqs :
          (FindOneFails(r) \/ InsertOneFails(r)) =>
              /\ resp' = resp
              /\ req' = req
              /\ server' = server
              /\ store' = store
              /\ attempts' = attempts
              /\ pc'[r] = IF idx[r] >= Len(req[r].recipients) THEN "config" ELSE "validate"
              /\ idx'[r] = IF idx[r] >= Len(req[r].recipients) THEN idx[r] ELSE idx[r] + 1
      ]_vars

\* C11 witness: the existence check of one request and the insert of another
\* have failed, and both handlers have gone on past the store calls with no
\* response written.
C11_Witness ==
    \E r1, r2 \in Reqs :
        /\ found[r1] = "error"
        /\ found[r2] = "ErrNoDocuments"
        /\ Count(logs[r2], << "Could not insert email" >>) = 1
        /\ \A r \in { r1, r2 } : pc[r] \in { "validate", "config" } /\ resp[r] = << >>

\* C12: a non-POST request is answered 405 "Only POST method is allowed" and
\* has no other effect: its handler never gets to the decoder, the recipient
\* loop, the store, getEmailConfig or SendMail, and writes nothing else.
C12_NonPostOnly405 ==
    \A r \in Reqs :
        req[r].method \notin { "none", "POST" } =>
            /\ pc[r] \in { "method", "done" }
            /\ idx[r] = 0
            /\ found[r] = "none"
            /\ store = << >>
            /\ attempts[r] = 0
            /\ bg[r] = "none"
            /\ slept[r] = << >> /\ logs[r] = << >>
            /\ resp[r] \in { << >>,
                             << Response(StatusMethodNotAllowed, "Only POST method is allowed") >> }
            /\ pc[r] = "done" => Len(resp[r]) = 1

\* C12 witness: a GET has been answered 405 while the process keeps serving.
C12_Witness ==
    \E r \in Reqs :
        /\ req[r].method = "GET"
        /\ pc[r] = "done"
        /\ Statuses(r) = << StatusMethodNotAllowed >>
        /\ server = "listening"

RECURSIVE Pow2(_)
\* 2^n
Pow2(n) == IF n = 0 THEN 1 ELSE 2 * Pow2(n - 1)

RECURSIVE Sum(_)
\* The sum of a sequence of numbers.
Sum(seq) == IF Len(seq) = 0 THEN 0 ELSE Head(seq) + Sum(Tail(seq))

\* The reports of r's dispatch that say it ended Delivered.
DeliveredReports(r) ==
    IF variant = "async"
    THEN Count(logs[r], << "Email sent successfully" >>)
    ELSE Cardinality({ i \in 1..Len(resp[r]) : resp[r][i].status = StatusOK })

\* A request the specification dispatches through the retry loop.
Retried(r) == variant \in { "store", "async" } /\ Sendable(r)

\* C13: the retry budget counts failed attempts only: against a relay that
\* fails MaxRetries = 3 times and then succeeds, the dispatch, its failure
\* counter at 3, makes one more SendMail call and ends Delivered.
C13_SuccessOnFinalPermittedAttempt ==
    \A r \in Reqs :
        (Retried(r) /\ relayFailures = MaxRetries /\ Quiescent(r))
        => /\ retryCount[r] = MaxRetries
           /\ attempts[r] = MaxRetries + 1
           /\ Delivered(r)

\* Where the dispatch of r stands: "send", "sleep" or "done" (the handler
\* itself, or its goroutine in the "async" build).
LoopAt(r) == IF variant = "async" THEN bg[r] ELSE pc[r]

\* C14: backoff is applied between attempts only: the k-th sleep of a
\* dispatch lasts 2^(k-1) seconds; a dispatch sleeps only behind a SendMail
\* call (one call more than sleeps while it sleeps), each sleep is followed by
\* another call (as many calls as sleeps when it is back at SendMail), and no
\* sleep follows the call that ends the dispatch (one sleep less than calls
\* at the end).
C14_BackoffBetweenAttemptsOnly ==
    \A r \in Reqs :
        /\ \A k \in 1..Len(slept[r]) : slept[r][k] = Pow2(k - 1)
        /\ LoopAt(r) = "sleep" => attempts[r] = Len(slept[r]) + 1
        /\ LoopAt(r) = "send" => attempts[r] = Len(slept[r])
        /\ (LoopAt(r) = "done" /\ attempts[r] >= 1) => Len(slept[r]) = attempts[r] - 1

\* C14 witness: a dispatch of the "async" build has ended Exhausted after
\* three SendMail calls with sleeps of 1 and 2 seconds between them.
C14_Witness ==
    \E r \in Reqs :
        /\ variant = "async"
        /\ bg[r] = "done"
        /\ attempts[r] = 3
        /\ slept[r] = << 1, 2 >>
        /\ ExhaustedReports(r) = 1

\* C15: in the synchronous build the caller waits through the whole retry
\* sequence: against a relay that always fails, the sleeps of the dispatch
\* that precede the response add up to 1+2+4 = 7 seconds.
C15_CumulativeBackoffSeven ==
    \A r \in Reqs :
        ( /\ variant = "store"
          /\ Sendable(r)
          /\ relayFailures >= MaxRetries
          /\ Quiescent(r) )
        => /\ Len(resp[r]) = 1
           /\ Sum(slept[r]) = 1 + 2 + 4

\* C16: the attempts of one request are sequential: SendMail calls and
\* sleeps of a dispatch alternate (the calls are the sleeps or one more), call
\* k+1 is made only when the k calls before it have all failed and k sleeps
\* have passed, every sleep follows a failure, and the successive sleeps are
\* strictly increasing.  (A dispatch has one position, so two SendMail calls
\* of one request are never in flight together.)
C16_SequentialIncreasingBackoff ==
    \A r \in Reqs :
        /\ \A i, j \in 1..Len(slept[r]) : i < j => slept[r][i] < slept[r][j]
        /\ attempts[r] - Len(slept[r]) \in { 0, 1 }
        /\ attempts[r] <= retryCount[r] + 1
        /\ Len(slept[r]) <= retryCount[r]
        /\ LoopAt(r) = "send" =>
              /\ attempts[r] = retryCount[r]
              /\ Len(slept[r]) = retryCount[r]

\* C16 witness: a dispatch has ended Delivered at its third SendMail call,
\* after two failures and sleeps of 1 and then 2 seconds.
C16_Witness ==
    \E r \in Reqs :
        /\ relayFailures = 2
        /\ LoopAt(r) = "done"
        /\ attempts[r] = 3
        /\ retryCount[r] = 2
        /\ slept[r] = << 1, 2 >>
        /\ Delivered(r)

\* The dispatch of r has reported its terminal outcome.
Terminal(r) == DeliveredReports(r) + ExhaustedReports(r) >= 1

\* C17: Delivered and Exhausted are absorbing and exclusive: a dispatch
\* never reports more than one terminal outcome (not both, not twice), and
\* once it has reported one it makes no further SendMail call, sleep or
\* report.
C17_TerminalOutcomeOnce ==
    /\ [](\A r \in Reqs : DeliveredReports(r) + ExhaustedReports(r) <= 1)
    /\ [][ \A r \in Reqs :
             Terminal(r) =>
                 /\ attempts'[r] = attempts[r]
                 /\ slept'[r] = slept[r]
                 /\ logs'[r] = logs[r]
                 /\ retryCount'[r] = retryCount[r]
                 /\ backoff'[r] = backoff[r]
                 /\ variant # "async" => resp'[r] = resp[r]
                 /\ LoopAt(r)' = "done"
         ]_vars

\* C17 witness: a dispatch of the "store" build has ended Exhausted (500)
\* while another request is still at work.
C17_Witness ==
    \E r, q \in Reqs :
        /\ variant = "store"
        /\ ExhaustedReports(r) = 1
        /\ DeliveredReports(r) = 0
        /\ pc[r] = "done"
        /\ pc[q] \in { "send", "sleep" }

\* The retry state of the dispatch of r.
RetryState(r) ==
    << retryCount[r], backoff[r], attempts[r], slept[r], logs[r], LoopAt(r) >>

\* C18: the backoff of one request does not block another, and dispatches
\* share no retry state: while a dispatch sleeps, every other dispatch that
\* has not ended can take its next step, and no step changes the retry state
\* (retryCount, backoff, SendMail calls, sleeps, reports, position) of more
\* than one request.
C18_IndependentDispatches ==
    /\ [](\A a, b \in Reqs :
             (a # b /\ LoopAt(a) = "sleep" /\ LoopAt(b) \in { "send", "sleep" })
                => ENABLED LoopStep(b))
    /\ [][ \A a, b \in Reqs :
             a # b => (RetryState(a)' = RetryState(a) \/ RetryState(b)' = RetryState(b))
         ]_vars

\* C18 witness: request a is in its first sleep, and request b has run its
\* whole dispatch, with sleeps of its own, to its terminal outcome.
C18_Witness ==
    \E a, b \in Reqs :
        /\ a # b
        /\ LoopAt(a) = "sleep"
        /\ slept[a] = << >>
        /\ backoff[a] = InitialBackoff
        /\ LoopAt(b) = "done"
        /\ Terminal(b)
        /\ slept[b] = << 1, 2 >>
        /\ backoff[b] = 4

\* The position of the first recipient of l that is no well-formed address
\* (Len(l) + 1 if there is none).
FirstIllFormed(l) ==
    CHOOSE i \in 1..(Len(l) + 1) :
        /\ i <= Len(l) => ~WellFormed(l[i])
        /\ \A j \in 1..(i - 1) : WellFormed(l[j])

\* C19: in the "store" build a request rejected with 400 has left its mark
\* on the store: with the first invalid recipient at position i and a healthy
\* store, the loop stopped at i, every recipient before i is recorded, and no
\* recipient from i on has been recorded.
C19_RejectedAfterStoreEffects ==
    \A r \in Reqs :
        ( /\ variant = "store"
          /\ Decoded(r)
          /\ pc[r] = "done"
          /\ Statuses(r) = << StatusBadRequest >>
          /\ StoreHealthy )
        => LET l == req[r].recipients
               i == FirstIllFormed(l)
           IN  /\ idx[r] = i
               /\ \A j \in 1..(i - 1) : l[j] \in Range(store)
               /\ \A j \in i..Len(l) :
                     (l[j] \in Range(store)) => \E k \in 1..(i - 1) : l[k] = l[j]

\* C20: every dispatch comes to its end: a dispatch never makes more than
\* 3 SendMail calls or 2 sleeps, and with a relay that answers every call a
\* started dispatch leads to Delivered or Exhausted, whatever the number of
\* calls the relay fails; in the synchronous builds the caller then has its
\* one response.
C20_DispatchTerminates ==
    /\ [](\A r \in Reqs : attempts[r] <= MaxRetries /\ Len(slept[r]) <= MaxRetries - 1)
    /\ \A r \in Reqs :
          (LoopAt(r) \in { "send", "sleep" })
          ~> ( /\ LoopAt(r) = "done"
               /\ DeliveredReports(r) + ExhaustedReports(r) = 1
               /\ variant # "async" => Len(resp[r]) = 1 )

\* C20 witness: in the "store" build a dispatch against a relay that fails
\* every call has ended Exhausted at its third call, and the caller has the
\* 500.
C20_Witness ==
    \E r \in Reqs :
        /\ variant = "store"
        /\ relayFailures > MaxRetries
        /\ pc[r] = "done"
        /\ attempts[r] = MaxRetries
        /\ Len(slept[r]) = MaxRetries - 1
        /\ Statuses(r) = << StatusInternalServerError >>

====
